---- MODULE Spec2Model ----
(***************************************************************************)
(* Payment confirmation and ledger reconciliation of the Stripe lambdas:   *)
(* createPaymentIntent, confirmPayment and webhook, as independent         *)
(* invocations that interleave at their store (MySQL) and processor        *)
(* (Stripe) calls.                                                         *)
(*                                                                         *)
(* Money: AccountBalance is kept in hundredths of a unit (the column is    *)
(* taken to be an exact two-decimal type); amounts are integer cents.      *)
(***************************************************************************)
EXTENDS Integers, Sequences, FiniteSets, TLC

\* ---------------------------------------------------------------- bounds
\* Number of handler invocations in one behaviour.
MaxInv == 2

\* ------------------------------------------------------- program constants
\* updateUserBalance: amountInDollars := float64(amount) / 100.0
CentsPerDollar == 100

\* net/http status codes used by the handlers
StatusOK == 200
StatusBadRequest == 400
StatusInternalServerError == 500

\* ----------------------------------------------------------------- inputs
Invocations == 1..MaxInv
UserIDs == {"u1", "u2"}                  \* rows of the Users table
Callers == UserIDs                       \* CognitoIdentityPoolID of a request
NULL == "NULL"
IntentIds == {"pi_1", "pi_2"}
Amounts == {2000, 550}
Succeeded == "succeeded"
RequiresAction == "requires_action"
RequiresConfirmation == "requires_confirmation"
\* stripe.PaymentIntentStatus values the processor may report
IntentStatuses == {RequiresAction, Succeeded, RequiresConfirmation, "canceled"}
EventSucceeded == "payment_intent.succeeded"
EventTypes == {EventSucceeded, "payment_intent.payment_failed"}
NoErr == "nil"

VARIABLES
    Users,               \* Users table: UserID -> [AccountBalance, StripeID]
    TransactionHistory,  \* TransactionHistory table: sequence of rows, in insertion order
    paymentIntents,      \* processor side: set of [ID, Amount, Customer]
    customers,           \* processor side: set of [ID, UserID] (UserID is the metadata tag)
    inv                  \* inv[i]: the i-th invocation (request, position, locals, response)

vars == <<Users, TransactionHistory, paymentIntents, customers, inv>>

\* ---------------------------------------------------------------- helpers
NoResp == [StatusCode |-> 0, Body |-> "", Detail |-> "", Err |-> NoErr]
NoRow == [TransactionID |-> "", UserID |-> "", TransactionType |-> "", Amount |-> 0,
          TransactionStatus |-> "", TransactionDate |-> 0]

Idle == [kind |-> "none", pc |-> "idle", caller |-> "", ID |-> "", Amount |-> 0,
         Type |-> "", StripeID |-> NULL, status1 |-> "", status2 |-> "",
         confirmIDs |-> <<>>, insertCalls |-> 0, insertErr |-> FALSE, row |-> NoRow,
         attachCalls |-> 0, newCalls |-> 0, getCalls |-> 0, userWrites |-> 0,
         dbErr |-> FALSE, after |-> {}, resp |-> NoResp]

InitUsers == [u \in UserIDs |->
                 [AccountBalance |-> 0,
                  StripeID |-> IF u = "u1" THEN "cus_1" ELSE NULL]]

\* The processor customer the mapped user already has.
InitCustomers == {[ID |-> "cus_1", UserID |-> "u1"]}

InitIntents == {[ID |-> "pi_1", Amount |-> 2000, Customer |-> "cus_1"]}

\* The ledger before the first invocation: empty, or holding the Pending row an
\* earlier confirmPayment inserted for the existing intent.
InitHistories ==
    {<<>>,
     <<[TransactionID |-> "pi_1", UserID |-> "u1", TransactionType |-> "Deposit",
        Amount |-> 2000, TransactionStatus |-> "Pending", TransactionDate |-> 0]>>}

Response(code, body, detail, err) ==
    [StatusCode |-> code, Body |-> body, Detail |-> detail, Err |-> err]

\* time.Now() as read by invocation i (each invocation reads the clock at most once)
Now(i) == i

Finish(i, r) == [inv EXCEPT ![i].pc = "done", ![i].resp = r]

\* Invocations that had returned at this point (history, for claims about calls
\* made in sequence): createCustomer notes it when the request arrives, webhook
\* when it issues the status update.
Returned == {k \in Invocations : inv[k].pc = "done"}

CanStart(i) ==
    /\ inv[i].kind = "none"
    /\ IF i = 1 THEN TRUE ELSE inv[i - 1].kind # "none"

Init ==
    /\ Users = InitUsers
    /\ TransactionHistory \in InitHistories
    /\ paymentIntents = InitIntents
    /\ customers = InitCustomers
    /\ inv = [i \in Invocations |-> Idle]

\* ------------------------------------------------------------------ store
\* amountInDollars := float64(amount) / 100.0, as <<whole units, hundredths>>
amountInDollars(amount) == <<amount \div CentsPerDollar, amount % CentsPerDollar>>

\* Variant: the UPDATE without its WHERE clause.
updateUserBalance_NoWhere(users, userID, amount) ==
    LET d == amountInDollars(amount) IN
    [u \in DOMAIN users |->
        [users[u] EXCEPT !.AccountBalance = @ + d[1] * CentsPerDollar + d[2]]]

\* Variant: the UPDATE sets the balance to the amount instead of adding it.
updateUserBalance_Overwrite(users, userID, amount) ==
    LET d == amountInDollars(amount) IN
    [u \in DOMAIN users |->
        IF u = userID
        THEN [users[u] EXCEPT !.AccountBalance = d[1] * CentsPerDollar + d[2]]
        ELSE users[u]]

\* UPDATE Users SET AccountBalance = AccountBalance + ? WHERE UserID = ?
updateUserBalance(users, userID, amount) ==
    LET d == amountInDollars(amount) IN
    [u \in DOMAIN users |->
        IF u = userID
        THEN [users[u] EXCEPT !.AccountBalance = @ + d[1] * CentsPerDollar + d[2]]
        ELSE users[u]]

\* Variant: the UPDATE keyed on the owner column instead of the transaction id.
updateTransactionHistory_WrongKey(th, transactionID, status, transactionDate) ==
    [k \in 1..Len(th) |->
        IF th[k].UserID = transactionID
        THEN [th[k] EXCEPT !.TransactionStatus = status,
                           !.TransactionDate = transactionDate]
        ELSE th[k]]

\* UPDATE TransactionHistory SET TransactionStatus = ?, TransactionDate = ?
\* WHERE TransactionID = ?
updateTransactionHistory(th, transactionID, status, transactionDate) ==
    [k \in 1..Len(th) |->
        IF th[k].TransactionID = transactionID
        THEN [th[k] EXCEPT !.TransactionStatus = status,
                           !.TransactionDate = transactionDate]
        ELSE th[k]]

\* Variant: an insert that overwrites the status of the rows already holding the id
\* (INSERT ... ON DUPLICATE KEY UPDATE) and appends only when there is none.
insertTransaction_Upsert(th, transactionID, userID, transactionType, transactionStatus, transactionDate, amount) ==
    IF \E k \in 1..Len(th) : th[k].TransactionID = transactionID
    THEN [k \in 1..Len(th) |->
             IF th[k].TransactionID = transactionID
             THEN [th[k] EXCEPT !.TransactionStatus = transactionStatus]
             ELSE th[k]]
    ELSE Append(th, [TransactionID |-> transactionID, UserID |-> userID,
                     TransactionType |-> transactionType, Amount |-> amount,
                     TransactionStatus |-> transactionStatus,
                     TransactionDate |-> transactionDate])

\* INSERT INTO TransactionHistory (...) VALUES (?, ?, ?, ?, ?, ?)
insertTransaction(th, transactionID, userID, transactionType, transactionStatus, transactionDate, amount) ==
    Append(th, [TransactionID |-> transactionID, UserID |-> userID,
                TransactionType |-> transactionType, Amount |-> amount,
                TransactionStatus |-> transactionStatus,
                TransactionDate |-> transactionDate])

\* ---------------------------------------------------------------- webhook
\* Variant: every decoded event is handled as intent-succeeded.
WebhookReceive_AnyType(i) ==
    /\ CanStart(i)
    /\ \E caller \in Callers, malformed \in BOOLEAN :
          IF malformed
          THEN inv' = [inv EXCEPT ![i] =
                          [Idle EXCEPT !.kind = "webhook", !.pc = "done",
                                       !.resp = Response(StatusInternalServerError,
                                                         "Error processing request", "", NoErr)]]
          ELSE \E type \in EventTypes, p \in paymentIntents :
                  inv' = [inv EXCEPT ![i] =
                             [Idle EXCEPT !.kind = "webhook", !.caller = caller, !.Type = type,
                                          !.ID = p.ID, !.Amount = p.Amount,
                                          !.StripeID = p.Customer,
                                          !.pc = "updateTransactionHistory"]]
    /\ UNCHANGED <<Users, TransactionHistory, paymentIntents, customers>>

\* Request arrives; json.Unmarshal of the body; dispatch on the event type.
WebhookReceive(i) ==
    /\ CanStart(i)
    /\ \E caller \in Callers, malformed \in BOOLEAN :
          IF malformed
          THEN inv' = [inv EXCEPT ![i] =
                          [Idle EXCEPT !.kind = "webhook", !.pc = "done",
                                       !.resp = Response(StatusInternalServerError,
                                                         "Error processing request", "", NoErr)]]
          ELSE \E type \in EventTypes, p \in paymentIntents :
                  LET r == [Idle EXCEPT !.kind = "webhook", !.caller = caller, !.Type = type,
                                        !.ID = p.ID, !.Amount = p.Amount, !.StripeID = p.Customer]
                  IN inv' = [inv EXCEPT ![i] =
                               IF type = EventSucceeded
                               THEN [r EXCEPT !.pc = "updateTransactionHistory"]
                               ELSE [r EXCEPT !.pc = "done",
                                              !.resp = Response(StatusOK,
                                                  "Received confirmation from Stripe", "", NoErr)]]
    /\ UNCHANGED <<Users, TransactionHistory, paymentIntents, customers>>

\* Variant: the error of the status update is tested after the balance increment.
WebhookUpdateHistory_CreditFirst(i) ==
    /\ inv[i].kind = "webhook"
    /\ inv[i].pc = "updateTransactionHistory"
    /\ \E fails \in BOOLEAN :
          IF fails
          THEN /\ inv' = [Finish(i, Response(StatusInternalServerError,
                                    "Failed to update transaction history", "", NoErr))
                            EXCEPT ![i].dbErr = TRUE, ![i].after = Returned]
               /\ Users' = updateUserBalance(Users, inv[i].caller, inv[i].Amount)
               /\ UNCHANGED TransactionHistory
          ELSE /\ TransactionHistory' =
                      updateTransactionHistory(TransactionHistory, inv[i].ID, "Completed", Now(i))
               /\ inv' = [inv EXCEPT ![i].pc = "updateUserBalance", ![i].after = Returned]
               /\ UNCHANGED Users
    /\ UNCHANGED <<paymentIntents, customers>>

\* updateTransactionHistory(ID, "Completed", time.Now())
WebhookUpdateHistory(i) ==
    /\ inv[i].kind = "webhook"
    /\ inv[i].pc = "updateTransactionHistory"
    /\ \E fails \in BOOLEAN :
          IF fails
          THEN /\ inv' = [Finish(i, Response(StatusInternalServerError,
                                    "Failed to update transaction history", "", NoErr))
                            EXCEPT ![i].dbErr = TRUE, ![i].after = Returned]
               /\ UNCHANGED TransactionHistory
          ELSE /\ TransactionHistory' =
                      updateTransactionHistory(TransactionHistory, inv[i].ID, "Completed", Now(i))
               /\ inv' = [inv EXCEPT ![i].pc = "updateUserBalance", ![i].after = Returned]
    /\ UNCHANGED <<Users, paymentIntents, customers>>

\* Variant: a failed balance update is logged and the event acknowledged.
WebhookUpdateBalance_SwallowErr(i) ==
    /\ inv[i].kind = "webhook"
    /\ inv[i].pc = "updateUserBalance"
    /\ \E fails \in BOOLEAN :
          IF fails
          THEN /\ inv' = [Finish(i, Response(StatusOK,
                                    "Received confirmation from Stripe", "", NoErr))
                            EXCEPT ![i].dbErr = TRUE]
               /\ UNCHANGED Users
          ELSE /\ Users' = updateUserBalance(Users, inv[i].caller, inv[i].Amount)
               /\ inv' = Finish(i, Response(StatusOK,
                                   "Received confirmation from Stripe", "", NoErr))
    /\ UNCHANGED <<TransactionHistory, paymentIntents, customers>>

\* updateUserBalance(CognitoIdentityPoolID, Amount)
WebhookUpdateBalance(i) ==
    /\ inv[i].kind = "webhook"
    /\ inv[i].pc = "updateUserBalance"
    /\ \E fails \in BOOLEAN :
          IF fails
          THEN /\ inv' = [Finish(i, Response(StatusInternalServerError,
                                    "Failed to update user balance", "", NoErr))
                            EXCEPT ![i].dbErr = TRUE]
               /\ UNCHANGED Users
          ELSE /\ Users' = updateUserBalance(Users, inv[i].caller, inv[i].Amount)
               /\ inv' = Finish(i, Response(StatusOK,
                                   "Received confirmation from Stripe", "", NoErr))
    /\ UNCHANGED <<TransactionHistory, paymentIntents, customers>>

\* --------------------------------------------------------- confirmPayment
\* Variant: the requires-action case falls into the succeeded case.
ConfirmSwitch_ActionInserts(status) ==
    CASE status \in {RequiresAction, Succeeded} -> "insertTransaction"
      [] status = RequiresConfirmation -> "confirmAgain"
      [] OTHER -> "unhandled"

\* Variant: a status the switch does not name is retried like requires-confirmation.
ConfirmSwitch_DefaultRetry(status) ==
    CASE status = RequiresAction -> "requiresAction"
      [] status = Succeeded -> "insertTransaction"
      [] OTHER -> "confirmAgain"

\* The switch on pi.Status after the first paymentintent.Confirm.
ConfirmSwitch(status) ==
    CASE status = RequiresAction -> "requiresAction"
      [] status = Succeeded -> "insertTransaction"
      [] status = RequiresConfirmation -> "confirmAgain"
      [] OTHER -> "unhandled"

\* Variant: the test on the retry's status inverted.
RetrySwitch_Inverted(status) ==
    IF status # Succeeded THEN "insertTransaction" ELSE "failed"

\* Variant: a retry that still requires confirmation is taken as a success.
RetrySwitch_Lenient(status) ==
    IF status \in {Succeeded, RequiresConfirmation} THEN "insertTransaction" ELSE "failed"

\* The test on piAttemptTwo.Status after the second paymentintent.Confirm.
RetrySwitch(status) ==
    IF status = Succeeded THEN "insertTransaction" ELSE "failed"

\* Request arrives; json.Unmarshal of the body into ConfirmPaymentRequest.
ConfirmReceive(i) ==
    /\ CanStart(i)
    /\ \E caller \in Callers, malformed \in BOOLEAN :
          IF malformed
          THEN inv' = [inv EXCEPT ![i] =
                          [Idle EXCEPT !.kind = "confirmPayment", !.pc = "done",
                                       !.resp = Response(StatusBadRequest, "", "", "json")]]
          ELSE \E id \in IntentIds :
                  inv' = [inv EXCEPT ![i] =
                             [Idle EXCEPT !.kind = "confirmPayment", !.pc = "confirm",
                                          !.caller = caller, !.ID = id]]
    /\ UNCHANGED <<Users, TransactionHistory, paymentIntents, customers>>

\* What paymentintent.Confirm(id) can return: an error, or the intent with a status.
ConfirmResults(id) ==
    {[err |-> TRUE, Status |-> "", Amount |-> 0]}
    \cup {[err |-> FALSE, Status |-> s, Amount |-> p.Amount] :
              s \in IntentStatuses, p \in {q \in paymentIntents : q.ID = id}}

\* pi, err := paymentintent.Confirm(body.PaymentIntentID, nil); switch pi.Status
ConfirmFirst(i) ==
    /\ inv[i].kind = "confirmPayment"
    /\ inv[i].pc = "confirm"
    /\ \E pi \in ConfirmResults(inv[i].ID) :
          LET called == [inv EXCEPT ![i].confirmIDs = Append(@, inv[i].ID),
                                    ![i].status1 = IF pi.err THEN "error" ELSE pi.Status]
              branch == ConfirmSwitch(pi.Status)
          IN IF pi.err
             THEN inv' = [called EXCEPT ![i].pc = "done",
                             ![i].resp = Response(StatusInternalServerError, "", "", "stripe")]
             ELSE CASE branch = "requiresAction" ->
                         inv' = [called EXCEPT ![i].pc = "done",
                                    ![i].resp = Response(StatusOK,
                                        "Additional authentication required", pi.Status, NoErr)]
                    [] branch = "insertTransaction" ->
                         inv' = [called EXCEPT ![i].pc = "insertTransaction",
                                               ![i].Amount = pi.Amount]
                    [] branch = "confirmAgain" ->
                         inv' = [called EXCEPT ![i].pc = "confirmAgain"]
                    [] OTHER ->
                         inv' = [called EXCEPT ![i].pc = "done",
                                    ![i].resp = Response(StatusBadRequest,
                                        "Unhandled payment intent status", pi.Status, NoErr)]
    /\ UNCHANGED <<Users, TransactionHistory, paymentIntents, customers>>

\* Variant: a failed retry is answered with the success response.
ConfirmRetry_SuppressErr(i) ==
    /\ inv[i].kind = "confirmPayment"
    /\ inv[i].pc = "confirmAgain"
    /\ \E pi \in ConfirmResults(inv[i].ID) :
          LET called == [inv EXCEPT ![i].confirmIDs = Append(@, inv[i].ID),
                                    ![i].status2 = IF pi.err THEN "error" ELSE pi.Status]
              branch == RetrySwitch(pi.Status)
          IN IF pi.err
             THEN inv' = [called EXCEPT ![i].pc = "done",
                             ![i].resp = Response(StatusOK,
                                             "Payment succeeded and is pending", "", NoErr)]
             ELSE CASE branch = "insertTransaction" ->
                         inv' = [called EXCEPT ![i].pc = "insertTransaction",
                                               ![i].Amount = pi.Amount]
                    [] OTHER ->
                         inv' = [called EXCEPT ![i].pc = "done",
                                    ![i].resp = Response(StatusBadRequest,
                                        "Tried to confirm the payment again, but failed",
                                        pi.Status, NoErr)]
    /\ UNCHANGED <<Users, TransactionHistory, paymentIntents, customers>>

\* piAttemptTwo, err := paymentintent.Confirm(pi.ID, nil)
ConfirmRetry(i) ==
    /\ inv[i].kind = "confirmPayment"
    /\ inv[i].pc = "confirmAgain"
    /\ \E pi \in ConfirmResults(inv[i].ID) :
          LET called == [inv EXCEPT ![i].confirmIDs = Append(@, inv[i].ID),
                                    ![i].status2 = IF pi.err THEN "error" ELSE pi.Status]
              branch == RetrySwitch(pi.Status)
          IN IF pi.err
             THEN inv' = [called EXCEPT ![i].pc = "done",
                             ![i].resp = Response(StatusInternalServerError,
                                             "Failed to confirm payment intent", "", NoErr)]
             ELSE CASE branch = "insertTransaction" ->
                         inv' = [called EXCEPT ![i].pc = "insertTransaction",
                                               ![i].Amount = pi.Amount]
                    [] OTHER ->
                         inv' = [called EXCEPT ![i].pc = "done",
                                    ![i].resp = Response(StatusBadRequest,
                                        "Tried to confirm the payment again, but failed",
                                        pi.Status, NoErr)]
    /\ UNCHANGED <<Users, TransactionHistory, paymentIntents, customers>>

\* Variant: the record is inserted as Completed.
ConfirmInsert_Completed(i) ==
    /\ inv[i].kind = "confirmPayment"
    /\ inv[i].pc = "insertTransaction"
    /\ \E fails \in BOOLEAN :
          LET th == insertTransaction(TransactionHistory, inv[i].ID, inv[i].caller,
                                      "Deposit", "Completed", Now(i), inv[i].Amount)
          IN /\ TransactionHistory' = IF fails THEN TransactionHistory ELSE th
             /\ inv' = [inv EXCEPT ![i].pc = "done",
                                   ![i].insertCalls = @ + 1,
                                   ![i].insertErr = fails,
                                   ![i].row = th[Len(th)],
                                   ![i].resp = Response(StatusOK,
                                       "Payment succeeded and is pending", "", NoErr)]
    /\ UNCHANGED <<Users, paymentIntents, customers>>

\* Variant: the confirm path also credits the caller's balance.
ConfirmInsert_Credit(i) ==
    /\ inv[i].kind = "confirmPayment"
    /\ inv[i].pc = "insertTransaction"
    /\ \E fails \in BOOLEAN :
          LET th == insertTransaction(TransactionHistory, inv[i].ID, inv[i].caller,
                                      "Deposit", "Pending", Now(i), inv[i].Amount)
          IN /\ TransactionHistory' = IF fails THEN TransactionHistory ELSE th
             /\ inv' = [inv EXCEPT ![i].pc = "done",
                                   ![i].insertCalls = @ + 1,
                                   ![i].insertErr = fails,
                                   ![i].row = th[Len(th)],
                                   ![i].resp = Response(StatusOK,
                                       "Payment succeeded and is pending", "", NoErr)]
    /\ Users' = updateUserBalance(Users, inv[i].caller, inv[i].Amount)
    /\ UNCHANGED <<paymentIntents, customers>>

\* Variant: a refused insert is issued once more.
ConfirmInsert_RetryWrite(i) ==
    /\ inv[i].kind = "confirmPayment"
    /\ inv[i].pc = "insertTransaction"
    /\ \E fails \in BOOLEAN :
          LET th == insertTransaction(TransactionHistory, inv[i].ID, inv[i].caller,
                                      "Deposit", "Pending", Now(i), inv[i].Amount)
              called == [inv EXCEPT ![i].insertCalls = @ + 1,
                                    ![i].insertErr = fails,
                                    ![i].row = th[Len(th)]]
          IN /\ TransactionHistory' = IF fails THEN TransactionHistory ELSE th
             /\ inv' = IF fails /\ inv[i].insertCalls = 0
                       THEN called
                       ELSE [called EXCEPT ![i].pc = "done",
                                ![i].resp = Response(StatusOK,
                                    "Payment succeeded and is pending", "", NoErr)]
    /\ UNCHANGED <<Users, paymentIntents, customers>>

\* currentTime := time.Now(); insertTransaction(pi.ID, caller, "Deposit", "Pending", ...)
\* whose error is discarded; then the 200 response.
ConfirmInsert(i) ==
    /\ inv[i].kind = "confirmPayment"
    /\ inv[i].pc = "insertTransaction"
    /\ \E fails \in BOOLEAN :
          LET th == insertTransaction(TransactionHistory, inv[i].ID, inv[i].caller,
                                      "Deposit", "Pending", Now(i), inv[i].Amount)
          IN /\ TransactionHistory' = IF fails THEN TransactionHistory ELSE th
             /\ inv' = [inv EXCEPT ![i].pc = "done",
                                   ![i].insertCalls = @ + 1,
                                   ![i].insertErr = fails,
                                   ![i].row = th[Len(th)],
                                   ![i].resp = Response(StatusOK,
                                       "Payment succeeded and is pending", "", NoErr)]
    /\ UNCHANGED <<Users, paymentIntents, customers>>

\* ---------------------------------------------------- createPaymentIntent
PaymentMethodIDs == {"pm_1"}

\* Request arrives; json.Unmarshal of the body into PaymentIntentRequest.
CreateReceive(i) ==
    /\ CanStart(i)
    /\ \E caller \in Callers, malformed \in BOOLEAN :
          IF malformed
          THEN inv' = [inv EXCEPT ![i] =
                          [Idle EXCEPT !.kind = "createPaymentIntent", !.pc = "done",
                                       !.resp = Response(StatusBadRequest, "", "", "json")]]
          ELSE \E amount \in Amounts :
                  inv' = [inv EXCEPT ![i] =
                             [Idle EXCEPT !.kind = "createPaymentIntent", !.pc = "queryUser",
                                          !.caller = caller, !.Amount = amount]]
    /\ UNCHANGED <<Users, TransactionHistory, paymentIntents, customers>>

\* Variant: the intent is created without attaching the payment method first.
CreateQueryUser_SkipAttach(i) ==
    /\ inv[i].kind = "createPaymentIntent"
    /\ inv[i].pc = "queryUser"
    /\ \E fails \in BOOLEAN :
          IF fails \/ inv[i].caller \notin DOMAIN Users
          THEN inv' = Finish(i, Response(StatusInternalServerError,
                                   "Error retrieving user from database", "", "sql"))
          ELSE IF Users[inv[i].caller].StripeID = NULL
               THEN inv' = Finish(i, Response(StatusOK,
                                   "Customer does not have a Stripe customer ID", "", NoErr))
               ELSE inv' = [inv EXCEPT ![i].pc = "new",
                                       ![i].StripeID = Users[inv[i].caller].StripeID]
    /\ UNCHANGED <<Users, TransactionHistory, paymentIntents, customers>>

\* SELECT * FROM Users WHERE UserID = ?; then the user.StripeID == nil test.
CreateQueryUser(i) ==
    /\ inv[i].kind = "createPaymentIntent"
    /\ inv[i].pc = "queryUser"
    /\ \E fails \in BOOLEAN :
          IF fails \/ inv[i].caller \notin DOMAIN Users
          THEN inv' = Finish(i, Response(StatusInternalServerError,
                                   "Error retrieving user from database", "", "sql"))
          ELSE IF Users[inv[i].caller].StripeID = NULL
               THEN inv' = Finish(i, Response(StatusOK,
                                   "Customer does not have a Stripe customer ID", "", NoErr))
               ELSE inv' = [inv EXCEPT ![i].pc = "attach",
                                       ![i].StripeID = Users[inv[i].caller].StripeID]
    /\ UNCHANGED <<Users, TransactionHistory, paymentIntents, customers>>

\* paymentmethod.Attach(PaymentMethodID, {Customer: *user.StripeID})
CreateAttach(i) ==
    /\ inv[i].kind = "createPaymentIntent"
    /\ inv[i].pc = "attach"
    /\ \E fails \in BOOLEAN :
          LET called == [inv EXCEPT ![i].attachCalls = @ + 1] IN
          IF fails
          THEN inv' = [called EXCEPT ![i].pc = "done",
                          ![i].resp = Response(StatusInternalServerError, "", "", "stripe")]
          ELSE inv' = [called EXCEPT ![i].pc = "new"]
    /\ UNCHANGED <<Users, TransactionHistory, paymentIntents, customers>>

\* Intent ids the processor has not handed out yet.
FreshIntentIds == IntentIds \ {p.ID : p \in paymentIntents}

\* Variant: the intent's creation also records a Pending deposit in the ledger.
CreateNew_RecordsPending(i) ==
    /\ inv[i].kind = "createPaymentIntent"
    /\ inv[i].pc = "new"
    /\ \E fails \in BOOLEAN :
          LET called == [inv EXCEPT ![i].newCalls = @ + 1] IN
          IF fails \/ FreshIntentIds = {}
          THEN /\ inv' = [called EXCEPT ![i].pc = "done",
                             ![i].resp = Response(StatusInternalServerError, "", "", "stripe")]
               /\ UNCHANGED <<paymentIntents, TransactionHistory>>
          ELSE LET id == CHOOSE x \in FreshIntentIds : TRUE IN
               /\ paymentIntents' = paymentIntents \cup
                      {[ID |-> id, Amount |-> inv[i].Amount, Customer |-> inv[i].StripeID]}
               /\ TransactionHistory' =
                      insertTransaction(TransactionHistory, id, inv[i].caller, "Deposit",
                                        "Pending", Now(i), inv[i].Amount)
               /\ inv' = [called EXCEPT ![i].pc = "done", ![i].ID = id,
                             ![i].resp = Response(StatusOK, "payment_intent_id", id, NoErr)]
    /\ UNCHANGED <<Users, customers>>

\* pi, err := paymentintent.New(params); the response carries pi.ID.
CreateNew(i) ==
    /\ inv[i].kind = "createPaymentIntent"
    /\ inv[i].pc = "new"
    /\ \E fails \in BOOLEAN :
          LET called == [inv EXCEPT ![i].newCalls = @ + 1] IN
          IF fails \/ FreshIntentIds = {}
          THEN /\ inv' = [called EXCEPT ![i].pc = "done",
                             ![i].resp = Response(StatusInternalServerError, "", "", "stripe")]
               /\ UNCHANGED paymentIntents
          ELSE LET id == CHOOSE x \in FreshIntentIds : TRUE IN
               /\ paymentIntents' = paymentIntents \cup
                      {[ID |-> id, Amount |-> inv[i].Amount, Customer |-> inv[i].StripeID]}
               /\ inv' = [called EXCEPT ![i].pc = "done", ![i].ID = id,
                             ![i].resp = Response(StatusOK, "payment_intent_id", id, NoErr)]
    /\ UNCHANGED <<Users, TransactionHistory, customers>>

\* ---------------------------------------------------------- specification
Next ==
    \E i \in Invocations :
        \/ WebhookReceive(i)
        \/ WebhookUpdateHistory(i)
        \/ WebhookUpdateBalance(i)
        \/ ConfirmReceive(i)
        \/ ConfirmFirst(i)
        \/ ConfirmRetry(i)
        \/ ConfirmInsert(i)
        \/ CreateReceive(i)
        \/ CreateQueryUser(i)
        \/ CreateAttach(i)
        \/ CreateNew(i)

Spec == Init /\ [][Next]_vars

\* ------------------------------------------------------ derived predicates
\* Rows of the ledger that carry the transaction id.
Rows(id) == {k \in 1..Len(TransactionHistory) : TransactionHistory[k].TransactionID = id}

\* The amount the processor holds for the intent.
IntentAmount(id) == (CHOOSE p \in paymentIntents : p.ID = id).Amount

\* Invocation i handled an intent-succeeded event and answered 200.
WebhookApplied(i) ==
    /\ inv[i].kind = "webhook"
    /\ inv[i].Type = EventSucceeded
    /\ inv[i].pc = "done"
    /\ inv[i].resp.StatusCode = StatusOK

\* Invocation i is a finished confirmPayment that answered "succeeded and pending".
ConfirmSucceeded(i) ==
    /\ inv[i].kind = "confirmPayment"
    /\ inv[i].pc = "done"
    /\ inv[i].resp = Response(StatusOK, "Payment succeeded and is pending", "", NoErr)

\* Rows are never deleted, so the ledger was empty at the start exactly when every
\* row was inserted by one of the invocations.
InitialLedgerEmpty ==
    Len(TransactionHistory) =
        Cardinality({i \in Invocations : inv[i].insertCalls = 1 /\ ~inv[i].insertErr})

\* Invocations other than those in S have not started.
OnlyStarted(S) == \A k \in Invocations \ S : inv[k].kind = "none"

\* The caller's balance after one credit of the amount to the initial balance.
CreditedOnce(user, amount) ==
    updateUserBalance(InitUsers, user, amount)[user].AccountBalance

\* ----------------------------------------------------------------- claims
\* C1: processing the intent-succeeded webhook twice for one intent id (same
\* caller) leaves the balance that processing it once leaves: the second
\* application is a no-op.
C1_WebhookIdempotent ==
    \A i, j \in Invocations :
        (/\ i # j
         /\ WebhookApplied(i) /\ WebhookApplied(j)
         /\ inv[i].ID = inv[j].ID /\ inv[i].caller = inv[j].caller
         /\ OnlyStarted({i, j}))
        => Users[inv[i].caller].AccountBalance = CreditedOnce(inv[i].caller, inv[i].Amount)

\* C2: once one confirmPayment (processor outcome Succeeded) and one
\* intent-succeeded webhook for the same intent id have both completed, in
\* either order, there is exactly one record for the id, it is Completed, and
\* the balance was credited exactly once.
C2_ConfirmWebhookRace ==
    \A i, j \in Invocations :
        (/\ ConfirmSucceeded(i) /\ inv[i].status1 = Succeeded /\ ~inv[i].insertErr
         /\ WebhookApplied(j)
         /\ inv[i].ID = inv[j].ID
         /\ InitialLedgerEmpty
         /\ OnlyStarted({i, j}))
        => /\ Cardinality(Rows(inv[i].ID)) = 1
           /\ \A k \in Rows(inv[i].ID) : TransactionHistory[k].TransactionStatus = "Completed"
           /\ Users[inv[j].caller].AccountBalance = CreditedOnce(inv[j].caller, inv[j].Amount)

\* C3: after webhook successfully handled an intent-succeeded event for an id
\* that had no record, a Completed record for the id exists and the caller's
\* balance was credited once.
C3_WebhookCreatesRecord ==
    \A j \in Invocations :
        (WebhookApplied(j) /\ InitialLedgerEmpty /\ OnlyStarted({j}))
        => /\ \E k \in Rows(inv[j].ID) :
                  TransactionHistory[k].TransactionStatus = "Completed"
           /\ Users[inv[j].caller].AccountBalance = CreditedOnce(inv[j].caller, inv[j].Amount)

\* C4: after an intent-succeeded webhook invocation has returned (whatever it
\* answered), the record of the id is Completed exactly when the caller's
\* balance was credited.
C4_WebhookAtomic ==
    \A j \in Invocations :
        (/\ inv[j].kind = "webhook" /\ inv[j].Type = EventSucceeded /\ inv[j].pc = "done"
         /\ Rows(inv[j].ID) # {}
         /\ OnlyStarted({j}))
        => ((\E k \in Rows(inv[j].ID) :
                 TransactionHistory[k].TransactionStatus = "Completed")
            <=> Users[inv[j].caller].AccountBalance =
                    CreditedOnce(inv[j].caller, inv[j].Amount))

\* C5: a ledger row keeps its transaction id, and its status changes only from
\* Pending to Completed or from Pending to Failed.
C5_StatusMonotonic ==
    [][\A k \in 1..Len(TransactionHistory) :
          /\ k <= Len(TransactionHistory')
          /\ TransactionHistory'[k].TransactionID = TransactionHistory[k].TransactionID
          /\ TransactionHistory'[k].TransactionStatus # TransactionHistory[k].TransactionStatus
             => /\ TransactionHistory[k].TransactionStatus = "Pending"
                /\ TransactionHistory'[k].TransactionStatus \in {"Completed", "Failed"}]_vars

\* C5 witness: a record was completed by webhook and confirmPayment then wrote the
\* same id again.
C5_Witness ==
    \E k, l \in 1..Len(TransactionHistory) :
        /\ k < l
        /\ TransactionHistory[k].TransactionID = TransactionHistory[l].TransactionID
        /\ TransactionHistory[k].TransactionStatus = "Completed"
        /\ TransactionHistory[l].TransactionStatus = "Pending"

\* C6: at most one record exists per transaction id.
C6_UniqueTransactionID ==
    InitialLedgerEmpty => \A id \in IntentIds : Cardinality(Rows(id)) <= 1

\* A finished confirmPayment with the given first and second processor outcomes.
ConfirmDone(i, s1, s2) ==
    /\ inv[i].kind = "confirmPayment"
    /\ inv[i].pc = "done"
    /\ inv[i].status1 = s1
    /\ inv[i].status2 = s2

\* The record confirmPayment hands to insertTransaction.
PendingDeposit(i) ==
    [TransactionID |-> inv[i].ID, UserID |-> inv[i].caller, TransactionType |-> "Deposit",
     Amount |-> IntentAmount(inv[i].ID), TransactionStatus |-> "Pending",
     TransactionDate |-> Now(i)]

\* The ledger holds a deposit of invocation i's caller for its intent, with the
\* intent's amount (webhook may have completed it since).
DepositRecorded(i) ==
    \E k \in Rows(inv[i].ID) :
        /\ TransactionHistory[k].UserID = inv[i].caller
        /\ TransactionHistory[k].TransactionType = "Deposit"
        /\ TransactionHistory[k].Amount = IntentAmount(inv[i].ID)

\* C7: with processor outcomes [RequiresConfirmation, Succeeded], confirmPayment
\* made exactly two confirm calls on the intent id and exactly one ledger write,
\* and answered success.
C7_RetryThenSucceeded ==
    \A i \in Invocations :
        ConfirmDone(i, RequiresConfirmation, Succeeded)
        => /\ inv[i].confirmIDs = <<inv[i].ID, inv[i].ID>>
           /\ inv[i].insertCalls = 1
           /\ inv[i].row = PendingDeposit(i)
           /\ ~inv[i].insertErr => DepositRecorded(i)
           /\ ConfirmSucceeded(i)

C7_Witness ==
    \E i \in Invocations :
        ConfirmDone(i, RequiresConfirmation, Succeeded) /\ ~inv[i].insertErr

\* C8: with processor outcomes [RequiresConfirmation, X], X a status other than
\* Succeeded, confirmPayment made exactly two confirm calls and no ledger write,
\* and answered 400 with the retry's status.
C8_RetryThenFailed ==
    \A i \in Invocations : \A x \in IntentStatuses \ {Succeeded} :
        ConfirmDone(i, RequiresConfirmation, x)
        => /\ inv[i].confirmIDs = <<inv[i].ID, inv[i].ID>>
           /\ inv[i].insertCalls = 0
           /\ inv[i].row = NoRow
           /\ inv[i].resp = Response(StatusBadRequest,
                                "Tried to confirm the payment again, but failed", x, NoErr)

C8_Witness ==
    \E i \in Invocations : ConfirmDone(i, RequiresConfirmation, RequiresConfirmation)

\* C9: when the first confirm call reports Succeeded, confirmPayment made no
\* second confirm call and exactly one ledger append (Pending, Deposit, the
\* processor's amount, owned by the caller), and answered success.
C9_FirstSucceeded ==
    \A i \in Invocations :
        ConfirmDone(i, Succeeded, "")
        => /\ inv[i].confirmIDs = <<inv[i].ID>>
           /\ inv[i].insertCalls = 1
           /\ inv[i].row = PendingDeposit(i)
           /\ ~inv[i].insertErr => DepositRecorded(i)
           /\ ConfirmSucceeded(i)

C9_Witness ==
    \E i \in Invocations : ConfirmDone(i, Succeeded, "") /\ ~inv[i].insertErr

\* createPaymentIntent i returned a fresh intent for amount 2000 and the later
\* confirmPayment j of the same caller confirmed it with processor outcome
\* Succeeded; nothing else ran.
SubmitThenConfirm(i, j) ==
    /\ i < j
    /\ inv[i].kind = "createPaymentIntent"
    /\ inv[i].pc = "done"
    /\ inv[i].resp.StatusCode = StatusOK
    /\ inv[i].resp.Body = "payment_intent_id"
    /\ inv[i].Amount = 2000
    /\ ConfirmDone(j, Succeeded, "")
    /\ inv[j].ID = inv[i].resp.Detail
    /\ inv[j].caller = inv[i].caller
    /\ OnlyStarted({i, j})

\* C10 as stated: after SubmitIntent(2000) and ConfirmIntent with outcome
\* Succeeded, a record of amount 2000 exists and the balance has grown by 20.00.
C10_ConfirmCreditsBalance ==
    \A i, j \in Invocations :
        (SubmitThenConfirm(i, j) /\ ~inv[j].insertErr)
        => /\ \E k \in Rows(inv[j].ID) : TransactionHistory[k].Amount = 2000
           /\ Users[inv[j].caller].AccountBalance = CreditedOnce(inv[j].caller, 2000)

\* C10 amended: after SubmitIntent(2000) and ConfirmIntent with outcome
\* Succeeded, a Pending record of amount 2000 exists (unless the store rejected
\* the insert) and every balance is as it was: confirmPayment credits nothing.
C10_ConfirmLeavesBalance ==
    \A i, j \in Invocations :
        SubmitThenConfirm(i, j)
        => /\ ~inv[j].insertErr
              => \E k \in Rows(inv[j].ID) :
                    /\ TransactionHistory[k].Amount = 2000
                    /\ TransactionHistory[k].TransactionStatus = "Pending"
           /\ Users = InitUsers

C10_Witness ==
    \E i, j \in Invocations : SubmitThenConfirm(i, j) /\ ~inv[j].insertErr

\* A finished confirmPayment whose first confirm call reported the status.
ConfirmFirstReported(i, s1) ==
    /\ inv[i].kind = "confirmPayment"
    /\ inv[i].pc = "done"
    /\ inv[i].status1 = s1

\* Nothing but invocation i ran and the ledger and the users are as they started.
LedgerUntouchedBy(i) ==
    OnlyStarted({i}) => (Users = InitUsers /\ TransactionHistory \in InitHistories)

\* C11: when the first confirm call reports RequiresAction, confirmPayment answers
\* 200 "additional authentication required", made no further confirm call, no
\* ledger write, and left every balance as it was.
C11_RequiresAction ==
    \A i \in Invocations :
        ConfirmFirstReported(i, RequiresAction)
        => /\ inv[i].resp = Response(StatusOK, "Additional authentication required",
                                     RequiresAction, NoErr)
           /\ inv[i].confirmIDs = <<inv[i].ID>>
           /\ inv[i].insertCalls = 0
           /\ inv[i].row = NoRow
           /\ LedgerUntouchedBy(i)

C11_Witness ==
    \E i \in Invocations : ConfirmFirstReported(i, RequiresAction) /\ OnlyStarted({i})

\* Statuses the switch of confirmPayment has no case for.
UnhandledStatuses == IntentStatuses \ {RequiresAction, Succeeded, RequiresConfirmation}

\* C12: when the first confirm call reports a status other than RequiresAction,
\* Succeeded or RequiresConfirmation, confirmPayment answers 400 carrying that
\* status, made no retry and no ledger write.
C12_UnhandledStatus ==
    \A i \in Invocations : \A x \in UnhandledStatuses :
        ConfirmFirstReported(i, x)
        => /\ inv[i].resp = Response(StatusBadRequest, "Unhandled payment intent status",
                                     x, NoErr)
           /\ inv[i].confirmIDs = <<inv[i].ID>>
           /\ inv[i].insertCalls = 0
           /\ inv[i].row = NoRow
           /\ LedgerUntouchedBy(i)

C12_Witness ==
    \E i \in Invocations : \E x \in UnhandledStatuses :
        ConfirmFirstReported(i, x) /\ OnlyStarted({i})

\* A finished confirmPayment one of whose processor confirm calls failed.
ConfirmCallFailed(i) ==
    /\ inv[i].kind = "confirmPayment"
    /\ inv[i].pc = "done"
    /\ inv[i].status1 = "error" \/ inv[i].status2 = "error"

\* C13: when a processor confirm call fails (first attempt or retry),
\* confirmPayment made no ledger write and no further confirm call, and answers
\* 500: neither the success nor the requires-action response.
C13_ConfirmErrorSurfaced ==
    \A i \in Invocations :
        ConfirmCallFailed(i)
        => /\ inv[i].insertCalls = 0
           /\ inv[i].row = NoRow
           /\ inv[i].resp.StatusCode = StatusInternalServerError
           /\ ~ConfirmSucceeded(i)
           /\ inv[i].resp.Body # "Additional authentication required"
           /\ inv[i].status1 = "error" => inv[i].confirmIDs = <<inv[i].ID>>
           /\ inv[i].status2 = "error" => inv[i].confirmIDs = <<inv[i].ID, inv[i].ID>>
           /\ LedgerUntouchedBy(i)

C13_Witness ==
    \E i, j \in Invocations :
        /\ ConfirmCallFailed(i) /\ inv[i].status1 = "error"
        /\ ConfirmCallFailed(j) /\ inv[j].status2 = "error"

\* C14: when insertTransaction fails in confirmPayment, the caller does not
\* receive the success response.
C14_InsertErrorSurfaced ==
    \A i \in Invocations :
        (inv[i].kind = "confirmPayment" /\ inv[i].pc = "done" /\ inv[i].insertErr)
        => /\ inv[i].resp.StatusCode # StatusOK
           /\ ~ConfirmSucceeded(i)

\* Invocation i is a webhook that decoded an event of another type than
\* intent-succeeded.
WebhookOtherEvent(i) ==
    /\ inv[i].kind = "webhook"
    /\ inv[i].Type \in EventTypes \ {EventSucceeded}

\* C15: for an event whose type is not payment_intent.succeeded, webhook issues
\* no store call, changes no record and no balance, and answers 200.
C15_OtherEventNoOp ==
    \A i \in Invocations :
        WebhookOtherEvent(i)
        => /\ inv[i].pc = "done"
           /\ inv[i].resp = Response(StatusOK, "Received confirmation from Stripe", "", NoErr)
           /\ ~inv[i].dbErr
           /\ LedgerUntouchedBy(i)

C15_Witness ==
    \E i \in Invocations : WebhookOtherEvent(i) /\ OnlyStarted({i})

\* Invocation i is a finished webhook one of whose two ledger writes failed.
WebhookWriteFailed(i) ==
    /\ inv[i].kind = "webhook"
    /\ inv[i].Type = EventSucceeded
    /\ inv[i].pc = "done"
    /\ inv[i].dbErr

\* C16: when the status update or the balance increment fails, webhook answers
\* 500 (a non-2xx response), never success.
C16_WriteFailureRetryable ==
    \A i \in Invocations :
        WebhookWriteFailed(i)
        => /\ inv[i].resp.StatusCode = StatusInternalServerError
           /\ ~WebhookApplied(i)

\* C16 witness: one invocation failed at the status update, another at the
\* balance increment.
C16_Witness ==
    \E i, j \in Invocations :
        /\ WebhookWriteFailed(i)
        /\ inv[i].resp.Body = "Failed to update transaction history"
        /\ WebhookWriteFailed(j)
        /\ inv[j].resp.Body = "Failed to update user balance"

\* Invocation i is a webhook whose body could not be decoded.
WebhookMalformed(i) ==
    /\ inv[i].kind = "webhook"
    /\ inv[i].pc = "done"
    /\ inv[i].Type = ""

\* C17: for a malformed body webhook changes nothing in the ledger and answers
\* with a status other than the one it gives for a failed ledger write.
C17_MalformedNotRetryable ==
    \A i, j \in Invocations :
        (WebhookMalformed(i) /\ WebhookWriteFailed(j))
        => /\ inv[i].resp.StatusCode # inv[j].resp.StatusCode
           /\ ~inv[i].dbErr

\* C18: a step of a webhook invocation changes no user but the request's caller
\* (and of the caller only the balance), adds no record and changes no record
\* with another transaction id than the event's.
C18_WebhookFrame ==
    [][\A i \in Invocations :
          (inv'[i] # inv[i] /\ inv'[i].kind = "webhook")
          => /\ \A u \in UserIDs :
                   /\ u # inv'[i].caller => Users'[u] = Users[u]
                   /\ Users'[u].StripeID = Users[u].StripeID
             /\ Len(TransactionHistory') = Len(TransactionHistory)
             /\ \A k \in 1..Len(TransactionHistory) :
                   TransactionHistory[k].TransactionID # inv'[i].ID
                   => TransactionHistory'[k] = TransactionHistory[k]]_vars

\* C18 witness: an event carrying the customer of u1 was handled for caller u2,
\* whose balance was credited.
C18_Witness ==
    \E i \in Invocations :
        /\ WebhookApplied(i)
        /\ inv[i].caller = "u2"
        /\ inv[i].StripeID = Users["u1"].StripeID
        /\ inv[i].StripeID # Users["u2"].StripeID
        /\ Users["u2"].AccountBalance = CreditedOnce("u2", inv[i].Amount)
        /\ Users["u1"].AccountBalance = InitUsers["u1"].AccountBalance

\* --------------------------------------------------------- createCustomer
CustomerCallers == UserIDs \cup {"u9"}     \* "u9" has no row in Users
CustomerIds == {"cus_1", "cus_2", "cus_3", "cus_4"}

\* What customer.Get(id) can return through findCustomerByStripeID: an error (also
\* when the processor has no such customer), or the customer.
FindResults(id) ==
    {[err |-> TRUE, customer |-> NULL]}
    \cup {[err |-> FALSE, customer |-> c.ID] : c \in {d \in customers : d.ID = id}}

\* Variant: the return in the "customer already exists" branch is missing.
FindSwitch_FallThrough(r) ==
    IF r.err THEN "error" ELSE "newCustomer"

\* The tests on err and on customer != nil after findCustomerByStripeID.
FindSwitch(r) ==
    IF r.err THEN "error"
    ELSE IF r.customer # NULL THEN "exists"
    ELSE "newCustomer"

\* Variant: the user.StripeID != nil test is missing, a customer is always created.
CustomerQueryUser_IgnoreRef(i) ==
    /\ CanStart(i)
    /\ \E caller \in CustomerCallers, fails \in BOOLEAN :
          LET r == [Idle EXCEPT !.kind = "createCustomer", !.caller = caller,
                                !.after = Returned]
          IN IF fails \/ caller \notin DOMAIN Users
             THEN inv' = [inv EXCEPT ![i] =
                             [r EXCEPT !.pc = "done",
                                       !.resp = Response(StatusInternalServerError,
                                           "Error retrieving user from database", "", "sql")]]
             ELSE inv' = [inv EXCEPT ![i] =
                             [r EXCEPT !.StripeID = Users[caller].StripeID,
                                       !.pc = "newCustomer"]]
    /\ UNCHANGED <<Users, TransactionHistory, paymentIntents, customers>>

\* Request arrives; SELECT * FROM Users WHERE UserID = ?; the user.StripeID != nil test.
CustomerQueryUser(i) ==
    /\ CanStart(i)
    /\ \E caller \in CustomerCallers, fails \in BOOLEAN :
          LET r == [Idle EXCEPT !.kind = "createCustomer", !.caller = caller,
                                !.after = Returned]
          IN IF fails \/ caller \notin DOMAIN Users
             THEN inv' = [inv EXCEPT ![i] =
                             [r EXCEPT !.pc = "done",
                                       !.resp = Response(StatusInternalServerError,
                                           "Error retrieving user from database", "", "sql")]]
             ELSE inv' = [inv EXCEPT ![i] =
                             [r EXCEPT !.StripeID = Users[caller].StripeID,
                                       !.pc = IF Users[caller].StripeID # NULL
                                              THEN "findCustomer" ELSE "newCustomer"]]
    /\ UNCHANGED <<Users, TransactionHistory, paymentIntents, customers>>

\* customer, err := findCustomerByStripeID(*user.StripeID)
CustomerFind(i) ==
    /\ inv[i].kind = "createCustomer"
    /\ inv[i].pc = "findCustomer"
    /\ \E r \in FindResults(inv[i].StripeID) :
          LET called == [inv EXCEPT ![i].getCalls = @ + 1]
              branch == FindSwitch(r)
          IN CASE branch = "error" ->
                     inv' = [called EXCEPT ![i].pc = "done",
                                ![i].resp = Response(StatusInternalServerError,
                                    "Error finding customer by Stripe ID", "", "stripe")]
               [] branch = "exists" ->
                     inv' = [called EXCEPT ![i].pc = "done",
                                ![i].resp = Response(StatusOK,
                                    "Customer already exists with Stripe ID", r.customer, NoErr)]
               [] OTHER ->
                     inv' = [called EXCEPT ![i].pc = "newCustomer"]
    /\ UNCHANGED <<Users, TransactionHistory, paymentIntents, customers>>

\* Customer ids the processor has not handed out yet.
FreshCustomerIds == CustomerIds \ {c.ID : c \in customers}

\* Variant: a failed customer.New is tried once more.
CustomerNew_Retry(i) ==
    /\ inv[i].kind = "createCustomer"
    /\ inv[i].pc = "newCustomer"
    /\ \E fails \in BOOLEAN :
          LET called == [inv EXCEPT ![i].newCalls = @ + 1] IN
          IF fails \/ FreshCustomerIds = {}
          THEN /\ inv' = IF inv[i].newCalls = 0
                         THEN called
                         ELSE [called EXCEPT ![i].pc = "done",
                                  ![i].resp = Response(StatusInternalServerError,
                                      "Error creating new customer in Stripe", "", "stripe")]
               /\ UNCHANGED customers
          ELSE LET id == CHOOSE x \in FreshCustomerIds : TRUE IN
               /\ customers' = customers \cup {[ID |-> id, UserID |-> inv[i].caller]}
               /\ inv' = [called EXCEPT ![i].pc = "updateUser", ![i].ID = id]
    /\ UNCHANGED <<Users, TransactionHistory, paymentIntents>>

\* params.AddMetadata("UserID", userID); c, err := customer.New(params)
CustomerNew(i) ==
    /\ inv[i].kind = "createCustomer"
    /\ inv[i].pc = "newCustomer"
    /\ \E fails \in BOOLEAN :
          LET called == [inv EXCEPT ![i].newCalls = @ + 1] IN
          IF fails \/ FreshCustomerIds = {}
          THEN /\ inv' = [called EXCEPT ![i].pc = "done",
                             ![i].resp = Response(StatusInternalServerError,
                                 "Error creating new customer in Stripe", "", "stripe")]
               /\ UNCHANGED customers
          ELSE LET id == CHOOSE x \in FreshCustomerIds : TRUE IN
               /\ customers' = customers \cup {[ID |-> id, UserID |-> inv[i].caller]}
               /\ inv' = [called EXCEPT ![i].pc = "updateUser", ![i].ID = id]
    /\ UNCHANGED <<Users, TransactionHistory, paymentIntents>>

\* UPDATE Users SET stripe_customer_id = ? WHERE UserID = ?
CustomerUpdateUser(i) ==
    /\ inv[i].kind = "createCustomer"
    /\ inv[i].pc = "updateUser"
    /\ \E fails \in BOOLEAN :
          LET called == [inv EXCEPT ![i].userWrites = @ + 1] IN
          IF fails
          THEN /\ inv' = [called EXCEPT ![i].pc = "done", ![i].dbErr = TRUE,
                             ![i].resp = Response(StatusInternalServerError,
                                 "Error updating user with new Stripe ID", "", "sql")]
               /\ UNCHANGED Users
          ELSE /\ Users' = [Users EXCEPT ![inv[i].caller].StripeID = inv[i].ID]
               /\ inv' = [called EXCEPT ![i].pc = "done",
                             ![i].resp = Response(StatusOK,
                                 "Created new customer in Stripe with ID", inv[i].ID, NoErr)]
    /\ UNCHANGED <<TransactionHistory, paymentIntents, customers>>

\* The identity mapper on its own: createCustomer invocations only.
NextCustomer ==
    \E i \in Invocations :
        \/ CustomerQueryUser(i)
        \/ CustomerFind(i)
        \/ CustomerNew(i)
        \/ CustomerUpdateUser(i)

SpecCustomer == Init /\ [][NextCustomer]_vars

\* Invocation i is a createCustomer that returned 200 (either message).
CustomerReturned(i) ==
    /\ inv[i].kind = "createCustomer"
    /\ inv[i].pc = "done"
    /\ inv[i].resp.StatusCode = StatusOK

\* C19: of two createCustomer calls for the same user made in sequence, the first
\* returning a customer reference, the second creates no processor customer,
\* writes nothing to the User record and, when it returns a reference, returns
\* the same one.
C19_MapperIdempotent ==
    \A i, j \in Invocations :
        (/\ CustomerReturned(i)
         /\ inv[j].kind = "createCustomer" /\ inv[j].pc = "done"
         /\ i \in inv[j].after
         /\ inv[j].caller = inv[i].caller
         /\ OnlyStarted({i, j}))
        => /\ inv[j].newCalls = 0
           /\ inv[j].userWrites = 0
           /\ Users[inv[j].caller].StripeID = inv[i].resp.Detail
           /\ CustomerReturned(j) => inv[j].resp.Detail = inv[i].resp.Detail

\* C19 witness: the first call created and persisted the customer, the second
\* found it.
C19_Witness ==
    \E i, j \in Invocations :
        /\ CustomerReturned(i) /\ inv[i].newCalls = 1 /\ inv[i].userWrites = 1
        /\ CustomerReturned(j) /\ i \in inv[j].after
        /\ inv[j].caller = inv[i].caller
        /\ inv[j].resp.Body = "Customer already exists with Stripe ID"

\* C20: a createCustomer invocation issues at most one UPDATE of the User record,
\* and only when the reference it read was NULL; the UPDATE touches only the
\* caller's reference.
C20_AtMostOneWrite ==
    [][\A i \in Invocations :
          (inv'[i] # inv[i] /\ inv'[i].kind = "createCustomer")
          => /\ inv'[i].userWrites <= 1
             /\ (inv'[i].userWrites # inv[i].userWrites \/ Users' # Users)
                => /\ inv[i].StripeID = NULL
                   /\ inv[i].userWrites = 0
                   /\ inv'[i].userWrites = 1
                   /\ \A u \in UserIDs : u # inv[i].caller => Users'[u] = Users[u]
                   /\ Users'[inv[i].caller].AccountBalance =
                          Users[inv[i].caller].AccountBalance]_vars

\* C20 witness: one invocation read NULL and wrote the reference, another read
\* a reference and returned it.
C20_Witness ==
    \E i, j \in Invocations :
        /\ CustomerReturned(i) /\ inv[i].StripeID = NULL /\ inv[i].userWrites = 1
        /\ Users[inv[i].caller].StripeID = inv[i].ID
        /\ CustomerReturned(j) /\ inv[j].StripeID # NULL /\ inv[j].userWrites = 0

\* C21: a user's processor-customer reference, once set, never changes, and no
\* two users hold the same reference (also under concurrent createCustomer runs).
C21_ReferenceImmutableUnique ==
    [][/\ \A u \in UserIDs :
             Users[u].StripeID # NULL => Users'[u].StripeID = Users[u].StripeID
       /\ \A u, v \in UserIDs :
             (u # v /\ Users'[u].StripeID # NULL)
             => Users'[u].StripeID # Users'[v].StripeID]_vars

\* createCustomer i ran alone for a user of the store and none of its queries,
\* creations or writes was refused.
CustomerRanClean(i) ==
    /\ inv[i].kind = "createCustomer"
    /\ inv[i].pc = "done"
    /\ inv[i].caller \in DOMAIN Users
    /\ inv[i].resp.Body \notin {"Error retrieving user from database",
                                "Error creating new customer in Stripe",
                                "Error updating user with new Stripe ID"}
    /\ OnlyStarted({i})

\* The lookup of the user's reference was made and returned no customer.
LookupFoundNothing(i) ==
    /\ inv[i].getCalls = 1
    /\ inv[i].resp.Body # "Customer already exists with Stripe ID"

\* C22: when the user has no reference, or has one whose lookup does not find
\* the remote customer, createCustomer creates a customer tagged with the user
\* id, stores its reference on the User record and returns it.
C22_CreatesWhenAbsentOrLost ==
    \A i \in Invocations :
        (CustomerRanClean(i) /\ (inv[i].StripeID = NULL \/ LookupFoundNothing(i)))
        => /\ inv[i].newCalls = 1
           /\ [ID |-> inv[i].ID, UserID |-> inv[i].caller] \in customers
           /\ Users[inv[i].caller].StripeID = inv[i].ID
           /\ inv[i].resp = Response(StatusOK, "Created new customer in Stripe with ID",
                                     inv[i].ID, NoErr)

\* Invocation i is a createCustomer whose caller has no row in Users.
CustomerUnknownCaller(i) ==
    /\ inv[i].kind = "createCustomer"
    /\ inv[i].caller \notin DOMAIN Users

\* Invocation i is a finished createCustomer whose customer.New returned an error.
CustomerNewFailed(i) ==
    /\ inv[i].kind = "createCustomer"
    /\ inv[i].pc = "done"
    /\ inv[i].newCalls >= 1
    /\ inv[i].ID = ""

\* Invocation i ran alone and left the users and the processor's customers as
\* they started.
MapperUntouchedBy(i) ==
    OnlyStarted({i}) => (Users = InitUsers /\ customers = InitCustomers)

\* C23: when no user matches the caller, createCustomer returns an error without
\* a processor call or a store write; when customer.New fails, it returns the
\* error after that one call, without a retry and without writing the User record.
C23_MapperErrors ==
    \A i \in Invocations :
        /\ CustomerUnknownCaller(i)
           => /\ inv[i].pc = "done"
              /\ inv[i].resp.StatusCode = StatusInternalServerError
              /\ inv[i].resp.Err # NoErr
              /\ inv[i].getCalls = 0 /\ inv[i].newCalls = 0 /\ inv[i].userWrites = 0
              /\ MapperUntouchedBy(i)
        /\ CustomerNewFailed(i)
           => /\ inv[i].newCalls = 1
              /\ inv[i].userWrites = 0
              /\ inv[i].resp = Response(StatusInternalServerError,
                                   "Error creating new customer in Stripe", "", "stripe")
              /\ MapperUntouchedBy(i)

\* C23 witness: one call came from an unknown caller, another saw customer.New fail.
C23_Witness ==
    \E i, j \in Invocations :
        /\ CustomerUnknownCaller(i) /\ inv[i].pc = "done"
        /\ CustomerNewFailed(j) /\ inv[j].caller \in DOMAIN Users

\* C29: whatever createCustomer invocations ran for a user (failed at the User
\* write or not, concurrent or not), the processor holds at most one customer
\* created for that user.
C29_OneCustomerPerUser ==
    \A u \in CustomerCallers :
        Cardinality({c \in customers : c.UserID = u}) <= 1

\* C24: no step of a createPaymentIntent invocation, on any of its paths, adds or
\* changes a ledger record, a balance or a processor-customer reference.
C24_CreateIntentFrame ==
    [][\A i \in Invocations :
          (inv'[i] # inv[i] /\ inv'[i].kind = "createPaymentIntent")
          => /\ TransactionHistory' = TransactionHistory
             /\ Users' = Users]_vars

\* C24 witness: one createPaymentIntent returned an intent id, another failed at
\* the processor.
C24_Witness ==
    \E i, j \in Invocations :
        /\ inv[i].kind = "createPaymentIntent" /\ inv[i].pc = "done"
        /\ inv[i].resp.Body = "payment_intent_id"
        /\ inv[j].kind = "createPaymentIntent" /\ inv[j].pc = "done"
        /\ inv[j].resp.Err = "stripe"

\* Invocation i is a finished createPaymentIntent whose caller has a User row
\* without a processor-customer reference.
CreateWithoutReference(i) ==
    /\ inv[i].kind = "createPaymentIntent"
    /\ inv[i].pc = "done"
    /\ inv[i].caller \in DOMAIN Users
    /\ Users[inv[i].caller].StripeID = NULL

\* C25: when the caller has no processor-customer reference, createPaymentIntent
\* answers with a failure (not a success response), returns no intent id and
\* made no processor call.
C25_NoReferenceFails ==
    \A i \in Invocations :
        CreateWithoutReference(i)
        => /\ inv[i].resp.StatusCode # StatusOK
           /\ inv[i].resp.Body # "payment_intent_id"
           /\ inv[i].attachCalls = 0
           /\ inv[i].newCalls = 0
           /\ customers = InitCustomers

\* C26: a confirmPayment invocation issues at most two confirm calls, the second
\* only after the first reported RequiresConfirmation, attempts at most one
\* ledger write, and once it has returned makes no further call.
C26_BoundedCalls ==
    [][\A i \in Invocations :
          inv'[i].kind = "confirmPayment"
          => /\ Len(inv'[i].confirmIDs) <= 2
             /\ Len(inv'[i].confirmIDs) = 2 => inv'[i].status1 = RequiresConfirmation
             /\ inv'[i].insertCalls <= 1
             /\ inv[i].pc = "done" => inv'[i] = inv[i]]_vars

\* C26 witness: one invocation made two confirm calls and one write, another
\* returned after a single confirm call without a write.
C26_Witness ==
    \E i, j \in Invocations :
        /\ inv[i].kind = "confirmPayment" /\ inv[i].pc = "done"
        /\ Len(inv[i].confirmIDs) = 2 /\ inv[i].insertCalls = 1
        /\ inv[j].kind = "confirmPayment" /\ inv[j].pc = "done"
        /\ Len(inv[j].confirmIDs) = 1 /\ inv[j].insertCalls = 0

\* confirmPayment i appended its record before webhook j issued the status update
\* for the same intent id; j answered 200; the ledger started empty and nothing
\* else ran.
ConfirmThenWebhook(i, j) ==
    /\ ConfirmSucceeded(i) /\ ~inv[i].insertErr
    /\ WebhookApplied(j)
    /\ i \in inv[j].after
    /\ inv[j].ID = inv[i].ID
    /\ InitialLedgerEmpty
    /\ OnlyStarted({i, j})

WebhookHistoryFailed(i) ==
    /\ inv[i].kind = "webhook"
    /\ inv[i].pc = "done"
    /\ inv[i].resp.Body = "Failed to update transaction history"

\* C30: webhook issues the balance increment only after the status update
\* succeeded: while the status update is pending, and after it failed, the
\* invocation has changed no balance, and a failed status update is answered 500.
C30_BalanceAfterStatus ==
    \A i \in Invocations :
        (inv[i].kind = "webhook" /\ inv[i].Type = EventSucceeded)
        => /\ (inv[i].pc = "updateTransactionHistory" \/ WebhookHistoryFailed(i))
              => (OnlyStarted({i}) => Users = InitUsers)
           /\ WebhookHistoryFailed(i)
              => /\ inv[i].resp.StatusCode = StatusInternalServerError
                 /\ inv[i].dbErr
           /\ (OnlyStarted({i}) /\ Users # InitUsers)
              => /\ inv[i].pc = "done"
                 /\ \A k \in Rows(inv[i].ID) :
                       TransactionHistory[k].TransactionStatus = "Completed"

\* C30 witness: the status update failed for an id that has a Pending record.
C30_Witness ==
    \E i \in Invocations :
        /\ WebhookHistoryFailed(i)
        /\ OnlyStarted({i})
        /\ \E k \in Rows(inv[i].ID) : TransactionHistory[k].TransactionStatus = "Pending"

\* ------------------------------------------------- the reconciler on its own
\* Two intents of the mapped user, each confirmed earlier: the processor holds
\* both and the ledger holds a Pending deposit for each.
InitWebhookIntents ==
    {[ID |-> "pi_1", Amount |-> 2000, Customer |-> "cus_1"],
     [ID |-> "pi_2", Amount |-> 550, Customer |-> "cus_1"]}

InitWebhookHistory ==
    <<[TransactionID |-> "pi_1", UserID |-> "u1", TransactionType |-> "Deposit",
       Amount |-> 2000, TransactionStatus |-> "Pending", TransactionDate |-> 0],
      [TransactionID |-> "pi_2", UserID |-> "u1", TransactionType |-> "Deposit",
       Amount |-> 550, TransactionStatus |-> "Pending", TransactionDate |-> 0]>>

InitWebhook ==
    /\ Users = InitUsers
    /\ TransactionHistory = InitWebhookHistory
    /\ paymentIntents = InitWebhookIntents
    /\ customers = InitCustomers
    /\ inv = [i \in Invocations |-> Idle]

\* webhook invocations only.
NextWebhook ==
    \E i \in Invocations :
        \/ WebhookReceive(i)
        \/ WebhookUpdateHistory(i)
        \/ WebhookUpdateBalance(i)

SpecWebhook == InitWebhook /\ [][NextWebhook]_vars

\* Two webhook invocations for different intent ids and the same user, both
\* answered 200, and nothing else ran.
TwoWebhooks(i, j) ==
    /\ i # j
    /\ WebhookApplied(i) /\ WebhookApplied(j)
    /\ inv[i].ID # inv[j].ID
    /\ inv[i].caller = inv[j].caller
    /\ OnlyStarted({i, j})

\* The status update of invocation i reached the rows of its own id: they are
\* Completed and carry the time i read.
StatusAppliedBy(i) ==
    /\ Rows(inv[i].ID) # {}
    /\ \A k \in Rows(inv[i].ID) :
          /\ TransactionHistory[k].TransactionStatus = "Completed"
          /\ TransactionHistory[k].TransactionDate = Now(i)
          /\ TransactionHistory[k].Amount = InitWebhookHistory[k].Amount
          /\ TransactionHistory[k].UserID = InitWebhookHistory[k].UserID

\* C27: two webhook invocations for different intent ids crediting the same user,
\* in any interleaving of their store calls: a store call of one is never held
\* back by the other, and once both have completed the balance has grown by the
\* sum of the two amounts and each status update reached its own id only.
C27_IndependentWebhooks ==
    /\ \A i \in Invocations :
          /\ (inv[i].kind = "webhook" /\ inv[i].pc = "updateTransactionHistory")
             => ENABLED WebhookUpdateHistory(i)
          /\ (inv[i].kind = "webhook" /\ inv[i].pc = "updateUserBalance")
             => ENABLED WebhookUpdateBalance(i)
    /\ \A i, j \in Invocations :
          TwoWebhooks(i, j)
          => /\ Users[inv[i].caller].AccountBalance =
                    InitUsers[inv[i].caller].AccountBalance + inv[i].Amount + inv[j].Amount
             /\ \A u \in UserIDs \ {inv[i].caller} : Users[u] = InitUsers[u]
             /\ StatusAppliedBy(i)
             /\ StatusAppliedBy(j)

\* C27 witness: the two invocations overlapped (neither had returned when the
\* other issued its status update) and both have completed.
C27_Witness ==
    \E i, j \in Invocations :
        /\ TwoWebhooks(i, j)
        /\ j \notin inv[i].after
        /\ i \notin inv[j].after
        /\ inv[i].caller = "u1"

\* Invocation i is a finished createPaymentIntent whose SELECT of the user failed:
\* the caller has a reference, yet no processor call was made.
CreateLookupFailed(i) ==
    /\ inv[i].kind = "createPaymentIntent"
    /\ inv[i].pc = "done"
    /\ inv[i].caller \in DOMAIN Users
    /\ Users[inv[i].caller].StripeID # NULL
    /\ inv[i].attachCalls = 0

\* Invocation i is a finished createPaymentIntent whose paymentmethod.Attach
\* failed: it returned after the attach call without calling paymentintent.New.
CreateAttachFailed(i) ==
    /\ inv[i].kind = "createPaymentIntent"
    /\ inv[i].pc = "done"
    /\ inv[i].attachCalls = 1
    /\ inv[i].newCalls = 0

\* Invocation i created no intent: it holds no intent id, and when it ran alone
\* the processor's intents are as they started.
NoIntentCreatedBy(i) ==
    /\ inv[i].ID = ""
    /\ inv[i].resp.Body # "payment_intent_id"
    /\ OnlyStarted({i}) => paymentIntents = InitIntents

\* C31: createPaymentIntent calls attachMethod then createIntent, each at most
\* once; when the user lookup or attachMethod fails no intent is created and an
\* error is returned; an intent id is returned only when createIntent succeeded.
C31_AttachThenCreate ==
    \A i \in Invocations :
        inv[i].kind = "createPaymentIntent"
        => /\ inv[i].attachCalls <= 1
           /\ inv[i].newCalls <= inv[i].attachCalls
           /\ inv[i].pc = "attach" => inv[i].newCalls = 0
           /\ (CreateLookupFailed(i) \/ CreateAttachFailed(i))
              => /\ NoIntentCreatedBy(i)
                 /\ inv[i].resp.StatusCode = StatusInternalServerError
                 /\ inv[i].resp.Err # NoErr
           /\ inv[i].resp.Body = "payment_intent_id"
              => /\ inv[i].attachCalls = 1 /\ inv[i].newCalls = 1
                 /\ inv[i].resp.StatusCode = StatusOK
                 /\ inv[i].resp.Detail = inv[i].ID
                 /\ [ID |-> inv[i].ID, Amount |-> inv[i].Amount,
                     Customer |-> Users[inv[i].caller].StripeID] \in paymentIntents
                 /\ inv[i].ID \notin {p.ID : p \in InitIntents}

\* C31 witness: one invocation failed at the attach call, another got past the
\* attach and returned the id of the intent it created.
C31_Witness ==
    \E i, j \in Invocations :
        /\ CreateAttachFailed(i)
        /\ inv[j].kind = "createPaymentIntent" /\ inv[j].pc = "done"
        /\ inv[j].resp.Body = "payment_intent_id"
        /\ inv[j].attachCalls = 1 /\ inv[j].newCalls = 1

====
